---- MODULE Spec2Model ----
(***************************************************************************)
(* Model of pop-cli's repository acquisition and release resolution:       *)
(*   crates/pop-parachains/src/utils/git.rs  (Git, GitHub)                 *)
(*   src/helpers.rs                          (clone_and_degit, fetch tag)  *)
(*                                                                         *)
(* Strings are sequences of one-character strings, so that slicing,        *)
(* splitting and pattern matching are computed as the code computes them.  *)
(* Option<T> is a sequence of length 0 (None) or 1 (Some(x)).              *)
(***************************************************************************)
EXTENDS Integers, Sequences, FiniteSets, TLC

VARIABLES
    \* ---- the filesystem target and the callers of the git operations ----
    fs,         \* the target directory: [exists, git, tree]
    remote,     \* the remote repository's tag list (Option<&str> entries)
    pc,         \* each caller's position
    args,       \* each caller's current arguments
    proto,      \* the clone attempt a caller is in: "https" or "ssh"
    created,    \* whether the running library clone has to create the target
    result,     \* each caller's last result
    attempts,   \* the clone attempts of each caller's current call
    steps,      \* the steps of each caller's current call besides its clone attempts
    ret,        \* the value a degit call returns once the metadata is removed
    prev,       \* each caller's previous call: its arguments and result
    fsAtCall,   \* the target as it was when the current call began
    calls,      \* number of calls made so far
    \* ---- the pure functions (GitHub urls, tag search, REST decoding) ----
    fn,         \* the function under evaluation
    input,      \* its input
    output,     \* its output
    fpc         \* "ready" before the evaluation, "done" after

gitVars == <<fs, remote, pc, args, proto, created, result, attempts, steps, ret, prev, fsAtCall, calls>>
fnVars == <<fn, input, output, fpc>>
vars == <<fs, remote, pc, args, proto, created, result, attempts, steps, ret, prev, fsAtCall, calls,
          fn, input, output, fpc>>

-----------------------------------------------------------------------------
(* Bounds of the model. *)

MaxTags == 3        \* longest tag list given to fetch_latest_tag
MaxPathLen == 4     \* longest url path
MaxCalls == 2       \* calls of the git operations in one run

-----------------------------------------------------------------------------
(* Option<T> and Result<T, E>. *)

None == <<>>
Some(x) == <<x>>
IsSome(o) == o # <<>>
Unwrap(o) == o[1]

Ok(v) == [kind |-> "ok", val |-> v, err |-> "none"]
Err(e) == [kind |-> "err", val |-> None, err |-> e]
Panic(msg) == [kind |-> "panic", val |-> None, err |-> msg]
NoResult == [kind |-> "none", val |-> None, err |-> "none"]

\* s[from..] of a str; the caller guarantees from <= Len(s) + 1, as Rust's
\* slice index does (a larger index panics).
SliceFrom(s, from) == SubSeq(s, from, Len(s))

-----------------------------------------------------------------------------
(* Characters and literals. *)

Digits == {"0", "1", "2", "3", "4", "5", "6", "7", "8", "9"}

S_github == <<"g", "i", "t", "h", "u", "b", ".", "c", "o", "m">>
S_git_at == <<"g", "i", "t", "@">>
S_dot_git == <<".", "g", "i", "t">>
S_api_repos == <<"h", "t", "t", "p", "s", ":", "/", "/", "a", "p", "i", ".",
                 "g", "i", "t", "h", "u", "b", ".", "c", "o", "m", "/",
                 "r", "e", "p", "o", "s", "/">>
S_releases == <<"/", "r", "e", "l", "e", "a", "s", "e", "s">>
S_git_ref_tags == <<"/", "g", "i", "t", "/", "r", "e", "f", "/", "t", "a", "g", "s", "/">>

-----------------------------------------------------------------------------
(* url::Url as the GitHub functions read it: host_str() and path().        *)
(* A Url with a host has an empty path or a path that begins with "/"; a   *)
(* Url without a host (mailto:, data:, file:, unix:) has any path.         *)

PathAlphabet == {"/", "o", "n"}

RECURSIVE StringsUpTo(_, _)
StringsUpTo(alphabet, n) ==
    IF n = 0 THEN {<<>>}
    ELSE LET shorter == StringsUpTo(alphabet, n - 1)
         IN  shorter \cup {Append(s, c) : s \in {t \in shorter : Len(t) = n - 1}, c \in alphabet}

Paths == StringsUpTo(PathAlphabet, MaxPathLen)
Hosts == {None, Some(S_github), Some(<<"h">>)}

Urls == {u \in [host : Hosts, path : Paths] :
            IsSome(u.host) => (u.path = <<>> \/ Head(u.path) = "/")}

\* str::split(sep): the pieces between separators; never an empty list.
RECURSIVE Split(_, _)
Split(s, sep) ==
    IF \A i \in 1..Len(s) : s[i] # sep THEN <<s>>
    ELSE LET i == CHOOSE k \in 1..Len(s) : s[k] = sep /\ \A j \in 1..(k - 1) : s[j] # sep
         IN  <<SubSeq(s, 1, i - 1)>> \o Split(SubSeq(s, i + 1, Len(s)), sep)

\* Url::path_segments(): None when the path does not begin with "/".
path_segments(url) ==
    IF url.path # <<>> /\ Head(url.path) = "/"
    THEN Some(Split(Tail(url.path), "/"))
    ELSE None

\* Vec::get(i), zero-based.
Get(v, i) == IF i + 1 <= Len(v) THEN Some(v[i + 1]) ELSE None

\* GitHub::org: .expect() on the segments, then segment 0 or an error.
org(repo) ==
    LET segs == path_segments(repo) IN
    IF ~IsSome(segs) THEN Panic("repository must have path segments")
    ELSE IF IsSome(Get(Unwrap(segs), 0)) THEN Ok(Unwrap(Get(Unwrap(segs), 0)))
    ELSE Err("the organization (or user) is missing from the github url")

\* GitHub::name: .expect() on the segments, then segment 1 or an error.
name(repo) ==
    LET segs == path_segments(repo) IN
    IF ~IsSome(segs) THEN Panic("repository must have path segments")
    ELSE IF IsSome(Get(Unwrap(segs), 1)) THEN Ok(Unwrap(Get(Unwrap(segs), 1)))
    ELSE Err("the repository name is missing from the github url")

\* GitHub::url_api_releases: org(repo)? is evaluated before name(repo)?.
url_api_releases(repo) ==
    IF org(repo).kind # "ok" THEN org(repo)
    ELSE IF name(repo).kind # "ok" THEN name(repo)
    ELSE Ok(S_api_repos \o org(repo).val \o <<"/">> \o name(repo).val \o S_releases)

\* GitHub::url_api_tag_information.
url_api_tag_information(repo, tag_name) ==
    IF org(repo).kind # "ok" THEN org(repo)
    ELSE IF name(repo).kind # "ok" THEN name(repo)
    ELSE Ok(S_api_repos \o org(repo).val \o <<"/">> \o name(repo).val
            \o S_git_ref_tags \o tag_name)

\* GitHub::convert_to_ssh_url: &url.path()[1..] panics on an empty path.
convert_to_ssh_url(url) ==
    IF 1 > Len(url.path) THEN Panic("byte index 1 is out of bounds")
    ELSE Ok(S_git_at
            \o (IF IsSome(url.host) THEN Unwrap(url.host) ELSE S_github)
            \o <<":">> \o SliceFrom(url.path, 2) \o S_dot_git)

-----------------------------------------------------------------------------
(* Git::fetch_latest_tag (git.rs) and fetch_latest_tag (helpers.rs): the   *)
(* same code twice.                                                        *)

\* Length of the run of digits of s that begins at position i.
RECURSIVE DigitRun(_, _)
DigitRun(s, i) ==
    IF i <= Len(s) /\ s[i] \in Digits THEN 1 + DigitRun(s, i + 1) ELSE 0

CharAt(s, i, c) == i <= Len(s) /\ s[i] = c

\* A match of v\d+\.\d+\.\d+ that begins at position i. A run of digits is
\* followed by a non-digit, so only the longest run can be followed by ".".
MatchAt(s, i) ==
    LET d1 == DigitRun(s, i + 1)
        p2 == i + 1 + d1
        d2 == DigitRun(s, p2 + 1)
        p3 == p2 + 1 + d2
        d3 == DigitRun(s, p3 + 1)
    IN  /\ CharAt(s, i, "v")
        /\ d1 >= 1 /\ CharAt(s, p2, ".")
        /\ d2 >= 1 /\ CharAt(s, p3, ".")
        /\ d3 >= 1

\* Regex::new(r"v\d+\.\d+\.\d+").is_match(tag): unanchored.
version_reg_is_match(tag) == \E i \in 1..Len(tag) : MatchAt(tag, i)

\* for tag in tags.iter().rev(): entry i, then the entries before it.
\* An entry is None when the tag name is not UTF-8.
RECURSIVE ScanRev(_, _)
ScanRev(tags, i) ==
    IF i = 0 THEN None
    ELSE IF IsSome(tags[i]) /\ version_reg_is_match(Unwrap(tags[i]))
         THEN Some(Unwrap(tags[i]))
         ELSE ScanRev(tags, i - 1)

\* The list visited from its first entry (tags.iter() without .rev()).
RECURSIVE ScanFwd(_, _)
ScanFwd(tags, i) ==
    IF i > Len(tags) THEN None
    ELSE IF IsSome(tags[i]) /\ version_reg_is_match(Unwrap(tags[i]))
         THEN Some(Unwrap(tags[i]))
         ELSE ScanFwd(tags, i + 1)
IterFwd(tags) == ScanFwd(tags, 1)

\* The order in which the loop visits the list: from the last entry.
IterRev(tags) == ScanRev(tags, Len(tags))

\* fetch_latest_tag: tag_names is repo.tag_names(None).ok(), None when the
\* listing failed.
fetch_latest_tag(tag_names) ==
    IF ~IsSome(tag_names) THEN None ELSE IterRev(Unwrap(tag_names))

T_v190 == <<"p", "o", "l", "k", "a", "d", "o", "t", "-", "v", "1", ".", "9", ".", "0">>
T_other == <<"s", "o", "m", "e", "-", "o", "t", "h", "e", "r", "-", "t", "a", "g">>
T_v1100 == <<"p", "o", "l", "k", "a", "d", "o", "t", "-", "v", "1", ".", "1", "0", ".", "0">>
T_v123 == <<"v", "1", ".", "2", ".", "3">>
T_inner == <<"x", "v", "0", ".", "0", ".", "0", "y">>
T_v12 == <<"v", "1", ".", "2">>
T_123 == <<"1", ".", "2", ".", "3">>
T_v1dd2 == <<"v", "1", ".", ".", "2", ".", "3">>
T_v12x == <<"v", "1", ".", "2", ".", "x">>

\* Tag names a listing can hold; None is a name that is not UTF-8.
TagEntries == {None, Some(T_v190), Some(T_other), Some(T_v1100), Some(T_v123),
               Some(T_inner), Some(T_v12), Some(T_123), Some(T_v1dd2), Some(T_v12x)}

RECURSIVE ListsUpTo(_, _)
ListsUpTo(S, n) ==
    IF n = 0 THEN {<<>>}
    ELSE LET shorter == ListsUpTo(S, n - 1)
         IN  shorter \cup {Append(l, x) : l \in {t \in shorter : Len(t) = n - 1}, x \in S}

\* What repo.tag_names(None).ok() can be.
TagListings == {None} \cup {Some(l) : l \in ListsUpTo(TagEntries, MaxTags)}

-----------------------------------------------------------------------------
(* GitHub::get_latest_releases: the response of the GET and its decoding   *)
(* by serde_json into Vec<Release>.                                        *)

JNull == [t |-> "null"]
JBool(b) == [t |-> "bool", b |-> b]
JNum(n) == [t |-> "num", n |-> n]
JStr(s) == [t |-> "str", s |-> s]
JArr(a) == [t |-> "arr", a |-> a]
\* o: a function from the keys present to their values
JObj(o) == [t |-> "obj", o |-> o]

HasKey(v, k) == v.t = "obj" /\ k \in DOMAIN v.o

\* #[derive(serde::Deserialize)] struct Release, from a JSON object: the
\* three required fields with their types, commit absent, null or a string,
\* any other field ignored.
ReleaseFromMap(v) ==
    IF /\ HasKey(v, "tag_name") /\ v.o["tag_name"].t = "str"
       /\ HasKey(v, "name") /\ v.o["name"].t = "str"
       /\ HasKey(v, "prerelease") /\ v.o["prerelease"].t = "bool"
       /\ HasKey(v, "commit") => v.o["commit"].t \in {"null", "str"}
    THEN Some([tag_name |-> v.o["tag_name"].s,
               name |-> v.o["name"].s,
               prerelease |-> v.o["prerelease"].b,
               commit |-> IF HasKey(v, "commit") /\ v.o["commit"].t = "str"
                          THEN Some(v.o["commit"].s) ELSE None])
    ELSE None

\* The derived Deserialize also reads a struct from a JSON array holding
\* its four fields in declaration order.
ReleaseFromSeq(v) ==
    IF /\ Len(v.a) = 4
       /\ v.a[1].t = "str" /\ v.a[2].t = "str" /\ v.a[3].t = "bool"
       /\ v.a[4].t \in {"null", "str"}
    THEN Some([tag_name |-> v.a[1].s, name |-> v.a[2].s, prerelease |-> v.a[3].b,
               commit |-> IF v.a[4].t = "str" THEN Some(v.a[4].s) ELSE None])
    ELSE None

DeserializeRelease(v) ==
    IF v.t = "obj" THEN ReleaseFromMap(v)
    ELSE IF v.t = "arr" THEN ReleaseFromSeq(v)
    ELSE None

\* response.json::<Vec<Release>>(): the body parsed as JSON, which must be
\* an array whose every element is a Release.
DecodeReleases(body) ==
    IF body.json /\ body.value.t = "arr"
       /\ \A i \in 1..Len(body.value.a) : IsSome(DeserializeRelease(body.value.a[i]))
    THEN Ok([i \in 1..Len(body.value.a) |-> Unwrap(DeserializeRelease(body.value.a[i]))])
    ELSE Err("decode")

\* get_latest_releases: send().await? fails when no response arrives;
\* json() then decodes the body of whatever response arrived.
get_latest_releases(response) ==
    IF ~response.sent THEN Err("request")
    ELSE DecodeReleases(response.body)

R_1100 == [k \in {"tag_name", "name", "prerelease"} |->
             CASE k = "tag_name" -> JStr("polkadot-v1.10.0")
               [] k = "name" -> JStr("Polkadot v1.10.0")
               [] k = "prerelease" -> JBool(FALSE)]
R_190 == [k \in {"tag_name", "name", "prerelease", "commit", "id"} |->
             CASE k = "tag_name" -> JStr("polkadot-v1.9.0")
               [] k = "name" -> JStr("Polkadot v1.9.0")
               [] k = "prerelease" -> JBool(TRUE)
               [] k = "commit" -> JStr("0bb6249")
               [] k = "id" -> JNum(7)]
R_nullcommit == [k \in {"tag_name", "name", "prerelease", "commit"} |->
             CASE k = "tag_name" -> JStr("v1.0.0")
               [] k = "name" -> JStr("one")
               [] k = "prerelease" -> JBool(FALSE)
               [] k = "commit" -> JNull]
R_noname == [k \in {"tag_name", "prerelease"} |->
             CASE k = "tag_name" -> JStr("v1.0.0")
               [] k = "prerelease" -> JBool(FALSE)]
R_badflag == [k \in {"tag_name", "name", "prerelease"} |->
             CASE k = "tag_name" -> JStr("v1.0.0")
               [] k = "name" -> JStr("one")
               [] k = "prerelease" -> JStr("no")]
R_message == [k \in {"message"} |-> JStr("Not Found")]

JsonBodies ==
    {JArr(<<>>), JArr(<<JObj(R_1100)>>), JArr(<<JObj(R_190), JObj(R_1100)>>),
     JArr(<<JObj(R_nullcommit)>>), JArr(<<JObj(R_noname)>>),
     JArr(<<JObj(R_1100), JObj(R_badflag)>>), JArr(<<JNum(1)>>),
     JArr(<<JArr(<<JStr("v1.0.0"), JStr("one"), JBool(FALSE), JNull>>)>>),
     JObj(R_message), JObj(R_1100), JNull, JStr("polkadot-v1.10.0")}

\* A body is JSON text or it is not.
Bodies == {[json |-> TRUE, value |-> v] : v \in JsonBodies}
          \cup {[json |-> FALSE, value |-> JNull]}

Statuses == {200, 201, 403, 404, 500}

\* What client.get(api_url).send() can yield: no response, or a response
\* with some status and body.
Responses == {[sent |-> TRUE, status |-> st, body |-> b] : st \in Statuses, b \in Bodies}
             \cup {[sent |-> FALSE, status |-> 0, body |-> [json |-> FALSE, value |-> JNull]]}

-----------------------------------------------------------------------------
(* GitHub::get_commit_sha_from_release: the response of the GET, read as   *)
(* a serde_json::Value.                                                    *)

\* Value::get(key) on an Option<&Value>: the member of an object, None for
\* a missing member and for a value that is no object.
ValueGet(opt, key) ==
    IF IsSome(opt) /\ Unwrap(opt).t = "obj" /\ key \in DOMAIN Unwrap(opt).o
    THEN Some(Unwrap(opt).o[key])
    ELSE None

\* Value::as_str on an Option<&Value>: the text of a JSON string.
as_str(opt) ==
    IF IsSome(opt) /\ Unwrap(opt).t = "str" THEN Some(Unwrap(opt).s) ELSE None

S_sha_not_found == "the github release tag sha was not found"

\* The lookup with the "object" step left out: value.get("sha").
commit_sha_top_level(response) ==
    IF ~response.sent THEN Err("request")
    ELSE IF ~response.body.json THEN Err("decode")
    ELSE LET commit == as_str(ValueGet(Some(response.body.value), "sha"))
         IN  IF IsSome(commit) THEN Ok(Unwrap(commit)) ELSE Err(S_sha_not_found)

\* get_commit_sha_from_release: send().await?, json::<Value>().await?, then
\* value.get("object").and_then(get("sha")).and_then(as_str).ok_or(..)?.
get_commit_sha_from_release(response) ==
    IF ~response.sent THEN Err("request")
    ELSE IF ~response.body.json THEN Err("decode")
    ELSE LET commit == as_str(ValueGet(ValueGet(Some(response.body.value), "object"), "sha"))
         IN  IF IsSome(commit) THEN Ok(Unwrap(commit)) ELSE Err(S_sha_not_found)

O_commit == [k \in {"sha", "type", "url"} |->
               CASE k = "sha" -> JStr("0bb6249268c0b77d2834640b84cb52fdd3d7e860")
                 [] k = "type" -> JStr("commit")
                 [] k = "url" -> JStr("https://api.github.com/repos/paritytech/polkadot-sdk/git/commits/0bb6249268c0b77d2834640b84cb52fdd3d7e860")]
O_nosha == [k \in {"type"} |-> JStr("commit")]
O_numsha == [k \in {"sha", "type"} |-> IF k = "sha" THEN JNum(249268) ELSE JStr("commit")]
O_nullsha == [k \in {"sha"} |-> JNull]
O_objsha == [k \in {"sha"} |-> JObj([j \in {"sha"} |-> JStr("0bb6")])]

\* a tag ref whose "object" member is v
TagRef(v) == [k \in {"ref", "node_id", "url", "object"} |->
               CASE k = "ref" -> JStr("refs/tags/polkadot-v1.11.0")
                 [] k = "node_id" -> JStr("REF_kwDOKDT1SrpyZWZzL3RhZ3MvcG9sa2Fkb3QtdjEuMTEuMA")
                 [] k = "url" -> JStr("https://api.github.com/repos/paritytech/polkadot-sdk/git/refs/tags/polkadot-v1.11.0")
                 [] k = "object" -> v]
R_noobject == [k \in {"ref", "sha"} |->
               IF k = "ref" THEN JStr("refs/tags/polkadot-v1.11.0") ELSE JStr("0bb6")]

TagRefJson ==
    {JObj(TagRef(JObj(O_commit))), JObj(TagRef(JObj(O_nosha))), JObj(TagRef(JObj(O_numsha))),
     JObj(TagRef(JObj(O_nullsha))), JObj(TagRef(JObj(O_objsha))),
     JObj(TagRef(JStr("0bb6"))), JObj(TagRef(JNull)),
     JObj(TagRef(JArr(<<JStr("sha"), JStr("0bb6")>>))),
     JObj([k \in {"object"} |-> JObj(O_commit)]),
     JObj(R_noobject), JObj(R_message), JObj(O_commit),
     JArr(<<>>), JArr(<<JObj(TagRef(JObj(O_commit)))>>), JNull, JStr("sha"), JNum(1), JBool(TRUE)}

TagRefBodies == {[json |-> TRUE, value |-> v] : v \in TagRefJson}
                \cup {[json |-> FALSE, value |-> JNull]}

\* What client.get(api_url).send() can yield for a tag ref.
TagRefResponses ==
    {[sent |-> TRUE, status |-> st, body |-> b] : st \in Statuses, b \in TagRefBodies}
    \cup {[sent |-> FALSE, status |-> 0, body |-> [json |-> FALSE, value |-> JNull]]}

-----------------------------------------------------------------------------
(* The git operations: Git::clone, Git::ssh_clone, Git::clone_and_degit,   *)
(* Git::ssh_clone_and_degit (git.rs) and clone_and_degit (helpers.rs).     *)
(*                                                                         *)
(* All calls name the same target directory. libgit2's clone (behind       *)
(* RepoBuilder::clone and Repository::clone) is three steps on the         *)
(* filesystem: it refuses a target that exists and is not an empty         *)
(* directory; it creates the target and its metadata directory; it         *)
(* fetches and checks out, and on failure removes what is under the        *)
(* target (and the target itself when it created it).                      *)

Procs == {1, 2}

S_https_repo == <<"h", "t", "t", "p", "s", ":", "/", "/"
                  , "g", "i", "t", "h", "u", "b", ".", "c", "o", "m", "/", "o", "/", "n">>
S_local_path == <<".", ".", "/", "n">>
S_mailto == <<"m", "a", "i", "l", "t", "o", ":">>
R_HEAD == <<"H", "E", "A", "D">>
B_main == <<"m", "a", "i", "n">>
C_sha == <<"0", "b", "b", "6">>
F_old == <<"o", "l", "d">>

U_repo == [host |-> Some(S_github), path |-> <<"/", "o", "/", "n">>]
U_nopath == [host |-> None, path |-> <<>>]

\* A url argument: its text, what Url::parse makes of it (None: it does not
\* parse), and whether a repository can be cloned from it at all.
Url_repo == [raw |-> S_https_repo, parsed |-> Some(U_repo), served |-> TRUE]
Url_path == [raw |-> S_local_path, parsed |-> None, served |-> TRUE]
Url_nopath == [raw |-> S_mailto, parsed |-> Some(U_nopath), served |-> FALSE]

\* The tags the remote repository lists, in the listing's (name) order.
Remotes == {<<Some(T_v1100), Some(T_v190), Some(T_other)>>, <<Some(T_other)>>}
RemoteCommits == {C_sha}

\* The arguments of a call. Git::clone takes a Url and a branch; the two
\* clone_and_degit take the url as text; Git::clone_and_degit takes a tag.
CallArgs ==
    {[op |-> "clone", url |-> u, tag_version |-> None, branch |-> b] :
        u \in {Url_repo, Url_nopath}, b \in {None, Some(B_main)}}
    \cup
    {[op |-> "clone_and_degit", url |-> u, tag_version |-> t, branch |-> None] :
        u \in {Url_repo, Url_path, Url_nopath},
        t \in {None, Some(T_v190), Some(T_v123), Some(C_sha)}}
    \cup
    {[op |-> "helpers_clone_and_degit", url |-> u, tag_version |-> None, branch |-> None] :
        u \in {Url_repo, Url_path}}

NoArgs == [op |-> "none", url |-> Url_repo, tag_version |-> None, branch |-> None]

Absent == [exists |-> FALSE, git |-> FALSE, tree |-> None]
EmptyDir == [exists |-> TRUE, git |-> FALSE, tree |-> None]

\* Path::exists()
Exists(d) == d.exists
\* the target holds something: metadata or working tree files
Populated(d) == d.exists /\ (d.git \/ IsSome(d.tree))

Range(f) == {f[i] : i \in DOMAIN f}

\* The clone attempt caller p is in, as it is logged when it ends.
\* Git::clone sets fo.depth(1) for its https attempt only (git.rs:18);
\* depth 0 is libgit2's default, the full history.
Attempt(p, ok) ==
    [proto |-> proto[p],
     url |-> IF proto[p] = "https" THEN args[p].url.raw
             ELSE convert_to_ssh_url(Unwrap(args[p].url.parsed)).val,
     depth |-> IF args[p].op = "clone" /\ proto[p] = "https" THEN 1 ELSE 0,
     branch |-> args[p].branch,
     ok |-> ok]

\* The call of p ends with result r; a panic ends the caller.
Finish(p, r) ==
    /\ result' = [result EXCEPT ![p] = r]
    /\ pc' = [pc EXCEPT ![p] = IF r.kind = "panic" THEN "panicked" ELSE "done"]

\* A failed attempt whose error is returned at once, with no fallback.
AttemptFailedReturns(p) ==
    /\ attempts' = [attempts EXCEPT ![p] = Append(@, Attempt(p, FALSE))]
    /\ Finish(p, Err(IF proto[p] = "ssh" THEN "ssh clone" ELSE "https clone"))

\* A clone attempt of p failed. Git::clone and Git::clone_and_degit go on to
\* the ssh fallback after the https attempt (git.rs:24-25, 52-54); helpers'
\* clone_and_degit returns the error (helpers.rs:48); an ssh attempt's error
\* is returned (git.rs:42, 94).
AttemptFailed(p) ==
    /\ attempts' = [attempts EXCEPT ![p] = Append(@, Attempt(p, FALSE))]
    /\ IF proto[p] = "ssh" THEN Finish(p, Err("ssh clone"))
       ELSE IF args[p].op = "helpers_clone_and_degit" THEN Finish(p, Err("https clone"))
       ELSE /\ pc' = [pc EXCEPT ![p] = "fallback"]
            /\ UNCHANGED result

\* A caller enters one of the three operations.
Call(p, a) ==
    /\ pc[p] \in {"idle", "done"}
    /\ calls < MaxCalls
    /\ calls' = calls + 1
    /\ args' = [args EXCEPT ![p] = a]
    /\ prev' = [prev EXCEPT ![p] = [args |-> args[p], result |-> result[p]]]
    /\ result' = [result EXCEPT ![p] = NoResult]
    /\ attempts' = [attempts EXCEPT ![p] = <<>>]
    /\ steps' = [steps EXCEPT ![p] = <<>>]
    /\ ret' = [ret EXCEPT ![p] = None]
    /\ proto' = [proto EXCEPT ![p] = "https"]
    /\ created' = [created EXCEPT ![p] = FALSE]
    /\ fsAtCall' = [fsAtCall EXCEPT ![p] = fs]
    /\ pc' = [pc EXCEPT ![p] = IF a.op = "clone" THEN "exists" ELSE "lib_pre"]
    /\ UNCHANGED <<fs, remote>>
    /\ UNCHANGED fnVars

\* Git::clone without the test of git.rs:16: it always goes on to clone.
CloneAlways(p) ==
    /\ pc[p] = "exists"
    /\ pc' = [pc EXCEPT ![p] = "lib_pre"]
    /\ UNCHANGED <<fs, remote, args, proto, created, result, attempts, steps, ret, prev, fsAtCall, calls>>
    /\ UNCHANGED fnVars

\* Git::clone, git.rs:16 and 28: nothing to do when the target exists.
CloneExists(p) ==
    /\ pc[p] = "exists"
    /\ IF Exists(fs)
       THEN /\ steps' = [steps EXCEPT ![p] = Append(@, "exists")]
            /\ Finish(p, Ok(None))
       ELSE pc' = [pc EXCEPT ![p] = "lib_pre"] /\ UNCHANGED <<result, steps>>
    /\ UNCHANGED <<fs, remote, args, proto, created, attempts, ret, prev, fsAtCall, calls>>
    /\ UNCHANGED fnVars

\* The library's clone begins (git.rs:24, 42, 52, 94; helpers.rs:48): a
\* target that exists and is not an empty directory fails the attempt.
LibPre(p) ==
    /\ pc[p] = "lib_pre"
    /\ IF Populated(fs)
       THEN AttemptFailed(p) /\ UNCHANGED created
       ELSE /\ created' = [created EXCEPT ![p] = ~Exists(fs)]
            /\ pc' = [pc EXCEPT ![p] = "lib_init"]
            /\ UNCHANGED <<result, attempts>>
    /\ UNCHANGED <<fs, remote, args, proto, steps, ret, prev, fsAtCall, calls>>
    /\ UNCHANGED fnVars

\* The library creates the target and its metadata directory.
LibInit(p) ==
    /\ pc[p] = "lib_init"
    /\ fs' = [fs EXCEPT !.exists = TRUE, !.git = TRUE]
    /\ pc' = [pc EXCEPT ![p] = "lib_xfer"]
    /\ UNCHANGED <<remote, args, proto, created, result, attempts, steps, ret, prev, fsAtCall, calls>>
    /\ UNCHANGED fnVars

\* The working tree a successful clone checks out: the branch's or HEAD's.
ClonedTree(p) == IF IsSome(args[p].branch) THEN args[p].branch ELSE Some(R_HEAD)

\* The fetch and checkout succeed: Git::clone returns Ok(()) (git.rs:28),
\* the clone_and_degit go on with the repository (git.rs:60, helpers.rs:51).
LibXferOk(p) ==
    /\ pc[p] = "lib_xfer"
    /\ args[p].url.served
    /\ fs' = [exists |-> TRUE, git |-> TRUE, tree |-> ClonedTree(p)]
    /\ attempts' = [attempts EXCEPT ![p] = Append(@, Attempt(p, TRUE))]
    /\ IF args[p].op = "clone" THEN Finish(p, Ok(None)) /\ UNCHANGED steps
       ELSE /\ steps' = [steps EXCEPT ![p] = Append(@, "clone")]
            /\ pc' = [pc EXCEPT ![p] =
                        IF args[p].op = "clone_and_degit" /\ IsSome(args[p].tag_version)
                        THEN "revparse" ELSE "fetch_latest_tag"]
            /\ UNCHANGED result
    /\ UNCHANGED <<remote, args, proto, created, ret, prev, fsAtCall, calls>>
    /\ UNCHANGED fnVars

\* The fetch or checkout fails (network, authentication, missing branch):
\* the library removes what is under the target, and the target when it
\* created it.
LibXferErr(p) ==
    /\ pc[p] = "lib_xfer"
    /\ fs' = IF created[p] THEN Absent ELSE EmptyDir
    /\ AttemptFailed(p)
    /\ UNCHANGED <<remote, args, proto, created, steps, ret, prev, fsAtCall, calls>>
    /\ UNCHANGED fnVars

\* The way to the ssh attempt after a failed https attempt.
\* Git::clone -> Git::ssh_clone, git.rs:25, 31, 32, 35.
\* Git::clone_and_degit -> Git::ssh_clone_and_degit, git.rs:54-55, 87, 90.
\* configOk: git2::Config::open_default() in set_up_ssh_fetch_options.
Fallback(p, configOk) ==
    /\ pc[p] = "fallback"
    /\ IF ~IsSome(args[p].url.parsed)
       THEN Finish(p, Err("url parse")) /\ UNCHANGED <<proto, steps>>
       ELSE IF convert_to_ssh_url(Unwrap(args[p].url.parsed)).kind = "panic"
       THEN Finish(p, convert_to_ssh_url(Unwrap(args[p].url.parsed)))
            /\ UNCHANGED <<proto, steps>>
       ELSE IF args[p].op = "clone" /\ Exists(fs)
       THEN /\ steps' = [steps EXCEPT ![p] = Append(@, "exists")]
            /\ Finish(p, Ok(None))
            /\ UNCHANGED proto
       ELSE IF ~configOk
       THEN Finish(p, Err("config")) /\ UNCHANGED <<proto, steps>>
       ELSE /\ proto' = [proto EXCEPT ![p] = "ssh"]
            /\ pc' = [pc EXCEPT ![p] = "lib_pre"]
            /\ UNCHANGED <<result, steps>>
    /\ UNCHANGED <<fs, remote, args, created, attempts, ret, prev, fsAtCall, calls>>
    /\ UNCHANGED fnVars

\* repo.revparse_ext(&tag_version) finds a tag of the repository or one of
\* its commits; it reads the metadata directory.
Resolves(rev) == fs.git /\ (Some(rev) \in Range(remote) \/ rev \in RemoteCommits)

\* Git::clone_and_degit, git.rs:60-61: .expect("Object not found").
Revparse(p) ==
    /\ pc[p] = "revparse"
    /\ IF Resolves(Unwrap(args[p].tag_version))
       THEN /\ steps' = [steps EXCEPT ![p] = Append(@, "revparse_ext")]
            /\ pc' = [pc EXCEPT ![p] = "checkout"]
            /\ UNCHANGED result
       ELSE Finish(p, Panic("Object not found")) /\ UNCHANGED steps
    /\ UNCHANGED <<fs, remote, args, proto, created, attempts, ret, prev, fsAtCall, calls>>
    /\ UNCHANGED fnVars

\* The checkout with the deletion run whatever its outcome (a deferred
\* deletion): a failed checkout goes on to the deletion step.
CheckoutThenRemove(p, ok) ==
    /\ pc[p] = "checkout"
    /\ IF ok /\ fs.git
       THEN /\ fs' = [fs EXCEPT !.tree = args[p].tag_version]
            /\ steps' = [steps EXCEPT ![p] = Append(@, "checkout_tree")]
            /\ pc' = [pc EXCEPT ![p] = "set_head"]
       ELSE /\ pc' = [pc EXCEPT ![p] = "remove"]
            /\ UNCHANGED <<fs, steps>>
    /\ UNCHANGED <<remote, args, proto, created, result, attempts, ret, prev, fsAtCall, calls>>
    /\ UNCHANGED fnVars

\* git.rs:62: repo.checkout_tree(&object, None).expect("Failed to checkout").
Checkout(p, ok) ==
    /\ pc[p] = "checkout"
    /\ IF ok /\ fs.git
       THEN /\ fs' = [fs EXCEPT !.tree = args[p].tag_version]
            /\ steps' = [steps EXCEPT ![p] = Append(@, "checkout_tree")]
            /\ pc' = [pc EXCEPT ![p] = "set_head"]
            /\ UNCHANGED result
       ELSE Finish(p, Panic("Failed to checkout")) /\ UNCHANGED <<fs, steps>>
    /\ UNCHANGED <<remote, args, proto, created, attempts, ret, prev, fsAtCall, calls>>
    /\ UNCHANGED fnVars

\* The set-head with the discovered latest tag as the value to return.
SetHeadReturnsLatest(p, ok) ==
    /\ pc[p] = "set_head"
    /\ IF ok /\ fs.git
       THEN /\ steps' = [steps EXCEPT ![p] =
                           Append(@, IF Unwrap(args[p].tag_version) \in RemoteCommits
                                     THEN "set_head_detached" ELSE "set_head")]
            /\ ret' = [ret EXCEPT ![p] = fetch_latest_tag(Some(remote))]
            /\ pc' = [pc EXCEPT ![p] = "remove"]
            /\ UNCHANGED result
       ELSE Finish(p, Panic("Failed to set HEAD")) /\ UNCHANGED <<steps, ret>>
    /\ UNCHANGED <<fs, remote, args, proto, created, attempts, prev, fsAtCall, calls>>
    /\ UNCHANGED fnVars

\* git.rs:63-69: set_head for a reference, set_head_detached for a commit,
\* .expect("Failed to set HEAD"); then ret is Some(tag_version) (git.rs:73).
SetHead(p, ok) ==
    /\ pc[p] = "set_head"
    /\ IF ok /\ fs.git
       THEN /\ steps' = [steps EXCEPT ![p] =
                           Append(@, IF Unwrap(args[p].tag_version) \in RemoteCommits
                                     THEN "set_head_detached" ELSE "set_head")]
            /\ ret' = [ret EXCEPT ![p] = args[p].tag_version]
            /\ pc' = [pc EXCEPT ![p] = "remove"]
            /\ UNCHANGED result
       ELSE Finish(p, Panic("Failed to set HEAD")) /\ UNCHANGED <<steps, ret>>
    /\ UNCHANGED <<fs, remote, args, proto, created, attempts, prev, fsAtCall, calls>>
    /\ UNCHANGED fnVars

\* git.rs:77, helpers.rs:51: let release = fetch_latest_tag(&repo).
\* listed: whether repo.tag_names(None) succeeds; it reads the metadata.
\* A failed listing is logged before the step: .ok()? makes it a None.
FetchLatestTag(p, listed) ==
    /\ pc[p] = "fetch_latest_tag"
    /\ ret' = [ret EXCEPT ![p] =
                 fetch_latest_tag(IF listed /\ fs.git THEN Some(remote) ELSE None)]
    /\ steps' = [steps EXCEPT ![p] =
                   Append(IF listed /\ fs.git THEN @ ELSE Append(@, "tag_names_err"),
                          "fetch_latest_tag")]
    /\ pc' = [pc EXCEPT ![p] = "remove"]
    /\ UNCHANGED <<fs, remote, args, proto, created, result, attempts, prev, fsAtCall, calls>>
    /\ UNCHANGED fnVars

\* The return of the tag with the metadata directory left in place.
ReturnWithoutRemove(p, ok) ==
    /\ pc[p] = "remove"
    /\ steps' = [steps EXCEPT ![p] = Append(@, "remove_dir_all")]
    /\ Finish(p, Ok(ret[p]))
    /\ UNCHANGED <<fs, remote, args, proto, created, attempts, ret, prev, fsAtCall, calls>>
    /\ UNCHANGED fnVars

\* git.rs:71-73 and 79-82, helpers.rs:53-55: fs::remove_dir_all(&git_dir)?
\* and the return of the tag.
RemoveDirAll(p, ok) ==
    /\ pc[p] = "remove"
    /\ IF ok /\ fs.git
       THEN /\ fs' = [fs EXCEPT !.git = FALSE]
            /\ steps' = [steps EXCEPT ![p] = Append(@, "remove_dir_all")]
            /\ Finish(p, Ok(ret[p]))
       ELSE Finish(p, Err("remove_dir_all")) /\ UNCHANGED <<fs, steps>>
    /\ UNCHANGED <<remote, args, proto, created, attempts, ret, prev, fsAtCall, calls>>
    /\ UNCHANGED fnVars

-----------------------------------------------------------------------------
(* Evaluation of the pure functions on every input of a bounded set.       *)

TagNames == {T_v123, T_other}

ConvertToSshUrl ==
    /\ fpc = "ready" /\ fn = "convert_to_ssh_url"
    /\ output' = convert_to_ssh_url(input)
    /\ fpc' = "done"
    /\ UNCHANGED <<fn, input>> /\ UNCHANGED gitVars

UrlApiReleases ==
    /\ fpc = "ready" /\ fn = "url_api_releases"
    /\ output' = url_api_releases(input)
    /\ fpc' = "done"
    /\ UNCHANGED <<fn, input>> /\ UNCHANGED gitVars

UrlApiTagInformation ==
    /\ fpc = "ready" /\ fn = "url_api_tag_information"
    /\ output' = url_api_tag_information(input.repo, input.tag_name)
    /\ fpc' = "done"
    /\ UNCHANGED <<fn, input>> /\ UNCHANGED gitVars

FetchLatestTagFn ==
    /\ fpc = "ready" /\ fn = "fetch_latest_tag"
    /\ output' = fetch_latest_tag(input)
    /\ fpc' = "done"
    /\ UNCHANGED <<fn, input>> /\ UNCHANGED gitVars

GetLatestReleases ==
    /\ fpc = "ready" /\ fn = "get_latest_releases"
    /\ output' = get_latest_releases(input)
    /\ fpc' = "done"
    /\ UNCHANGED <<fn, input>> /\ UNCHANGED gitVars

GetCommitShaFromRelease ==
    /\ fpc = "ready" /\ fn = "get_commit_sha_from_release"
    /\ output' = get_commit_sha_from_release(input)
    /\ fpc' = "done"
    /\ UNCHANGED <<fn, input>> /\ UNCHANGED gitVars

-----------------------------------------------------------------------------
(* Specifications. *)

\* The callers in `idle` can call; the others never do.
GitInit(idle) ==
    /\ fs \in {Absent, EmptyDir, [exists |-> TRUE, git |-> FALSE, tree |-> Some(F_old)]}
    /\ remote \in Remotes
    /\ pc = [p \in Procs |-> IF p \in idle THEN "idle" ELSE "off"]
    /\ args = [p \in Procs |-> NoArgs]
    /\ proto = [p \in Procs |-> "https"]
    /\ created = [p \in Procs |-> FALSE]
    /\ result = [p \in Procs |-> NoResult]
    /\ attempts = [p \in Procs |-> <<>>]
    /\ steps = [p \in Procs |-> <<>>]
    /\ ret = [p \in Procs |-> None]
    /\ prev = [p \in Procs |-> [args |-> NoArgs, result |-> NoResult]]
    /\ fsAtCall = [p \in Procs |-> Absent]
    /\ calls = 0

FnOff ==
    /\ fn = "none" /\ input = None /\ output = NoResult /\ fpc = "off"

Next ==
    \/ \E p \in Procs, a \in CallArgs : Call(p, a)
    \/ \E p \in Procs : CloneExists(p)
    \/ \E p \in Procs : LibPre(p)
    \/ \E p \in Procs : LibInit(p)
    \/ \E p \in Procs : LibXferOk(p)
    \/ \E p \in Procs : LibXferErr(p)
    \/ \E p \in Procs, configOk \in BOOLEAN : Fallback(p, configOk)
    \/ \E p \in Procs : Revparse(p)
    \/ \E p \in Procs, ok \in BOOLEAN : Checkout(p, ok)
    \/ \E p \in Procs, ok \in BOOLEAN : SetHead(p, ok)
    \/ \E p \in Procs, listed \in BOOLEAN : FetchLatestTag(p, listed)
    \/ \E p \in Procs, ok \in BOOLEAN : RemoveDirAll(p, ok)

\* Two callers of the git operations on the same target, interleaved.
Init == GitInit(Procs) /\ FnOff
Spec == Init /\ [][Next]_vars

\* One caller of the git operations: its calls follow one another.
InitSeq == GitInit({1}) /\ FnOff
SpecSeq == InitSeq /\ [][Next]_vars

\* One evaluation of one pure function.
InitFn ==
    /\ GitInit({}) /\ fs = Absent /\ remote = <<Some(T_other)>>
    /\ \/ fn = "convert_to_ssh_url" /\ input \in Urls
       \/ fn = "url_api_releases" /\ input \in Urls
       \/ fn = "url_api_tag_information" /\ input \in [repo : Urls, tag_name : TagNames]
       \/ fn = "fetch_latest_tag" /\ input \in TagListings
       \/ fn = "get_latest_releases" /\ input \in Responses
       \/ fn = "get_commit_sha_from_release" /\ input \in TagRefResponses
    /\ output = NoResult
    /\ fpc = "ready"
NextFn ==
    \/ ConvertToSshUrl
    \/ UrlApiReleases
    \/ UrlApiTagInformation
    \/ FetchLatestTagFn
    \/ GetLatestReleases
    \/ GetCommitShaFromRelease
SpecFn == InitFn /\ [][NextFn]_vars

-----------------------------------------------------------------------------
(* Properties of the pure functions, checked under SpecFn.                 *)

IsDigits(s) == Len(s) >= 1 /\ \A i \in 1..Len(s) : s[i] \in Digits

\* t contains a substring v<digits>.<digits>.<digits>
HasVersionSubstring(t) ==
    \E i \in 1..Len(t) : \E j \in (i + 1)..Len(t) : \E k \in (j + 2)..Len(t) :
      \E l \in (k + 2)..Len(t) :
        /\ t[i] = "v"
        /\ IsDigits(SubSeq(t, i + 1, j))
        /\ t[j + 1] = "."
        /\ IsDigits(SubSeq(t, j + 2, k))
        /\ t[k + 1] = "."
        /\ IsDigits(SubSeq(t, k + 2, l))

\* the positions of a tag list that hold a version tag
VersionPositions(tags) ==
    {i \in 1..Len(tags) : IsSome(tags[i]) /\ HasVersionSubstring(Unwrap(tags[i]))}

Max(S) == CHOOSE m \in S : \A n \in S : n <= m

Evaluated(f) == fn = f /\ fpc = "done"

\* C7: for every sequence of tag names, fetch_latest_tag returns the last
\* element that contains a substring v<digits>.<digits>.<digits>, and none
\* exactly when no element contains one.
C7_LatestTagIsLastVersionTag ==
    (Evaluated("fetch_latest_tag") /\ IsSome(input)) =>
        LET tags == Unwrap(input) IN
        IF VersionPositions(tags) = {} THEN output = None
        ELSE output = Some(Unwrap(tags[Max(VersionPositions(tags))]))

\* C7's example: ["polkadot-v1.9.0", "some-other-tag", "polkadot-v1.10.0"]
\* gives "polkadot-v1.10.0".
C7_Witness ==
    /\ Evaluated("fetch_latest_tag")
    /\ input = Some(<<Some(T_v190), Some(T_other), Some(T_v1100)>>)
    /\ output = Some(T_v1100)

StripLeadingSlash(path) ==
    IF path # <<>> /\ Head(path) = "/" THEN Tail(path) ELSE path

\* C8: for every url, convert_to_ssh_url returns
\* git@<host>:<path without its leading slash>.git, with host github.com
\* when the url has none, and never panics.
C8_SshUrlForEveryUrl ==
    Evaluated("convert_to_ssh_url") =>
        /\ output.kind = "ok"
        /\ output.val = S_git_at
                        \o (IF input.host = None THEN S_github ELSE Unwrap(input.host))
                        \o <<":">> \o StripLeadingSlash(input.path) \o S_dot_git

\* The segments of a url's path: what lies between its slashes, none for a
\* path that does not begin with one.
SegmentsOf(url) ==
    IF url.path # <<>> /\ Head(url.path) = "/" THEN Split(Tail(url.path), "/") ELSE <<>>

\* C9: url_api_releases and url_api_tag_information return the api url
\* built from organization O (segment 0) and name N (segment 1), and an
\* error value, never a panic, when either is missing from the url.
C9_ApiUrlOrError ==
    /\ Evaluated("url_api_releases") =>
         IF Len(SegmentsOf(input)) >= 2
         THEN output = Ok(S_api_repos \o SegmentsOf(input)[1] \o <<"/">>
                          \o SegmentsOf(input)[2] \o S_releases)
         ELSE output.kind = "err"
    /\ Evaluated("url_api_tag_information") =>
         IF Len(SegmentsOf(input.repo)) >= 2
         THEN output = Ok(S_api_repos \o SegmentsOf(input.repo)[1] \o <<"/">>
                          \o SegmentsOf(input.repo)[2] \o S_git_ref_tags \o input.tag_name)
         ELSE output.kind = "err"

Is2xx(status) == 200 <= status /\ status <= 299

\* the body is a JSON array of release records
WellFormedReleases(body) ==
    /\ body.json
    /\ body.value.t = "arr"
    /\ \A i \in 1..Len(body.value.a) : IsSome(DeserializeRelease(body.value.a[i]))

\* C10: get_latest_releases returns an error for every response whose
\* status is not 2xx, whatever its body (the claim names the request error;
\* any error is accepted here), the decode error for every 2xx response
\* whose body is not an array of release records, and a release list only
\* for a 2xx response with a well-formed body.
C10_ReleasesOnlyFrom2xx ==
    Evaluated("get_latest_releases") =>
        /\ (input.sent /\ ~Is2xx(input.status)) => output.kind = "err"
        /\ (input.sent /\ Is2xx(input.status) /\ ~WellFormedReleases(input.body))
              => output = Err("decode")
        /\ output.kind = "ok"
              => (input.sent /\ Is2xx(input.status) /\ WellFormedReleases(input.body))

\* the body holds a string at object.sha
HasObjectSha(v) ==
    /\ v.t = "obj"
    /\ "object" \in DOMAIN v.o
    /\ v.o["object"].t = "obj"
    /\ "sha" \in DOMAIN v.o["object"].o
    /\ v.o["object"].o["sha"].t = "str"

\* C11: for a JSON response body, get_commit_sha_from_release returns the
\* string at object.sha when there is one, and the error "the github
\* release tag sha was not found" when "object" is absent, "object.sha" is
\* absent or "object.sha" is no string; it never panics.
C11_ShaOrMissingField ==
    Evaluated("get_commit_sha_from_release") =>
        /\ output.kind # "panic"
        /\ (input.sent /\ input.body.json) =>
              IF HasObjectSha(input.body.value)
              THEN output = Ok(input.body.value.o["object"].o["sha"].s)
              ELSE output = Err("the github release tag sha was not found")

\* a body whose object.sha is there and is no string gives the error
C11_Witness ==
    /\ Evaluated("get_commit_sha_from_release")
    /\ input.sent /\ input.body.json
    /\ input.body.value = JObj(TagRef(JObj(O_numsha)))
    /\ output = Err("the github release tag sha was not found")

-----------------------------------------------------------------------------
(* Properties of the git operations. SpecSeq has one caller, whose calls   *)
(* follow one another; Spec has two, interleaved.                          *)

Ended(p) == pc[p] \in {"done", "panicked"}
Degits(p) == args[p].op \in {"clone_and_degit", "helpers_clone_and_degit"}
Falls(p) == args[p].op \in {"clone", "clone_and_degit"}

\* C1: a clone_and_degit that follows a successful one with the same url on
\* the target it populated returns success and leaves the target as it was.
C1_SecondDegitIsNoOp ==
    \A p \in Procs :
        (/\ Ended(p) /\ Degits(p)
         /\ prev[p].args.op = args[p].op /\ prev[p].args.url = args[p].url
         /\ prev[p].result.kind = "ok"
         /\ Populated(fsAtCall[p]))
        => (result[p].kind = "ok" /\ fs = fsAtCall[p])

\* C2: two clone attempts never write into the same target at the same
\* time: of two concurrent invocations at most one is cloning.
C2_NoOverlappingClones ==
    \A p, q \in Procs : (p # q) => ~(pc[p] = "lib_xfer" /\ pc[q] = "lib_xfer")

\* C3: when the target exists as Git::clone is called, the call returns Ok
\* at once, makes no https and no ssh attempt, and leaves the target as it
\* was.
C3_CloneIntoExistingIsNoOp ==
    \A p \in Procs :
        (args[p].op = "clone" /\ fsAtCall[p].exists) =>
            /\ pc[p] \in {"exists", "done"}
            /\ attempts[p] = <<>>
            /\ fs = fsAtCall[p]
            /\ pc[p] = "done" => result[p] = Ok(None)

C3_Witness ==
    \E p \in Procs :
        /\ args[p].op = "clone" /\ fsAtCall[p].exists
        /\ pc[p] = "done" /\ result[p] = Ok(None)

HttpsFailed(p) ==
    /\ Len(attempts[p]) >= 1
    /\ attempts[p][1].proto = "https"
    /\ ~attempts[p][1].ok

SshForm(url) == convert_to_ssh_url(Unwrap(url.parsed)).val

\* the clone phase of p's call succeeded
Cloned(p) ==
    IF args[p].op = "clone" THEN result[p] = Ok(None)
    ELSE Len(steps[p]) >= 1 /\ steps[p][1] = "clone"

\* The second attempt of p's call is the ssh attempt on the ssh form of the
\* call's url, and it decides the call: success if it succeeds, its error if
\* it fails.
SshAttemptDecides(p) ==
    /\ attempts[p][2].proto = "ssh"
    /\ attempts[p][2].url = SshForm(args[p].url)
    /\ attempts[p][2].ok => Cloned(p)
    /\ ~attempts[p][2].ok => result[p] = Err("ssh clone")

\* C4 as claimed: a failed https attempt is always followed by exactly one
\* ssh attempt on the ssh form of the same url; the operation succeeds if
\* that attempt succeeds and returns its error if it fails.
C4_AlwaysOneSshAttempt ==
    \A p \in Procs :
        (Ended(p) /\ Falls(p) /\ HttpsFailed(p)) =>
            /\ Len(attempts[p]) = 2
            /\ SshAttemptDecides(p)

\* C4 as the code has it: the error of a failed https attempt is never
\* returned, and at most one ssh attempt follows it, on the ssh form of the
\* same url, which decides the call. No ssh attempt follows when the url
\* text does not parse (clone_and_degit returns the parse error), when the
\* url's path is empty (convert_to_ssh_url panics), when the target exists
\* as ssh_clone looks at it (Git::clone returns Ok), or when the git
\* configuration cannot be opened (its error is returned).
C4_AtMostOneSshAttempt ==
    \A p \in Procs :
        (Ended(p) /\ Falls(p) /\ HttpsFailed(p)) =>
            /\ result[p] # Err("https clone")
            /\ Len(attempts[p]) <= 2
            /\ IF Len(attempts[p]) = 2 THEN SshAttemptDecides(p)
               ELSE \/ /\ args[p].op = "clone_and_degit"
                       /\ ~IsSome(args[p].url.parsed)
                       /\ result[p] = Err("url parse")
                    \/ /\ IsSome(args[p].url.parsed)
                       /\ Unwrap(args[p].url.parsed).path = <<>>
                       /\ result[p].kind = "panic"
                    \/ /\ args[p].op = "clone"
                       /\ steps[p] = <<"exists">>
                       /\ result[p] = Ok(None)
                    \/ result[p] = Err("config")

C4_Witness ==
    \E p \in Procs :
        /\ Ended(p) /\ Falls(p) /\ HttpsFailed(p)
        /\ Len(attempts[p]) = 2 /\ attempts[p][2].proto = "ssh" /\ attempts[p][2].ok
        /\ result[p].kind = "ok"

\* the working tree a successful degit leaves: the tag's, or the clone's
DegitTree(p) ==
    IF IsSome(args[p].tag_version) THEN args[p].tag_version ELSE Some(R_HEAD)

\* C5: whenever a clone_and_degit returns Ok, with a tag or without, the
\* metadata directory is gone from the target and the working tree files
\* are there.
C5_OkMeansDegitted ==
    \A p \in Procs :
        (pc[p] = "done" /\ Degits(p) /\ result[p].kind = "ok") =>
            /\ fs.exists
            /\ ~fs.git
            /\ fs.tree = DegitTree(p)

C5_Witness ==
    \E p \in Procs :
        /\ pc[p] = "done" /\ args[p].op = "clone_and_degit" /\ result[p].kind = "ok"
        /\ IsSome(args[p].tag_version)
        /\ ~fs.git /\ fs.tree = args[p].tag_version

\* the repository has neither a tag nor a commit of that name
Unknown(rev) == Some(rev) \notin Range(remote) /\ rev \notin RemoteCommits

\* C6: a tag or commit id that the cloned repository does not have ends
\* clone_and_degit with an error result, not an abort, and the metadata
\* directory is still there.
C6_UnknownRevisionIsAnError ==
    \A p \in Procs :
        (/\ Ended(p) /\ args[p].op = "clone_and_degit"
         /\ IsSome(args[p].tag_version) /\ Unknown(Unwrap(args[p].tag_version))
         /\ steps[p] = <<"clone">>)
        => (result[p].kind = "err" /\ fs.git)


\* the steps of a clone_and_degit that reaches the deletion, in order
StepsToRemove(p) ==
    IF args[p].op = "clone_and_degit" /\ IsSome(args[p].tag_version)
    THEN {<<"clone", "revparse_ext", "checkout_tree", "set_head", "remove_dir_all">>,
          <<"clone", "revparse_ext", "checkout_tree", "set_head_detached", "remove_dir_all">>}
    ELSE {<<"clone", "fetch_latest_tag", "remove_dir_all">>,
          <<"clone", "tag_names_err", "fetch_latest_tag", "remove_dir_all">>}

\* C12: in a clone_and_degit the deletion of the metadata directory is the
\* last step and comes only after the steps before it succeeded: the clone,
\* then resolve, checkout and set-head with a tag, the reading of the tag
\* list without one (fetch_latest_tag, which has no failing outcome: a list
\* that cannot be read reads as none). A call in which the clone, the resolution, the checkout
\* or the set-head failed does not delete it: after a cloned repository the
\* metadata directory is still there, after a failed clone the target has
\* the metadata it had when the call began.
C12_RemoveIsLastAndGated ==
    \A p \in Procs :
        Degits(p) =>
            /\ ("remove_dir_all" \in Range(steps[p])) =>
                  /\ steps[p] \in StepsToRemove(p)
                  /\ pc[p] = "done" /\ result[p].kind = "ok"
                  /\ ~fs.git
            /\ (Ended(p) /\ result[p].kind # "ok") =>
                  /\ "remove_dir_all" \notin Range(steps[p])
                  /\ IF Cloned(p) THEN fs.git ELSE fs.git = fsAtCall[p].git
            /\ (~Ended(p) /\ Cloned(p)) => fs.git

\* a call with a tag that ran all five steps, the deletion last
C12_Witness ==
    \E p \in Procs :
        /\ args[p].op = "clone_and_degit" /\ IsSome(args[p].tag_version)
        /\ steps[p] = <<"clone", "revparse_ext", "checkout_tree", "set_head", "remove_dir_all">>
        /\ pc[p] = "done" /\ ~fs.git


\* the last version tag of a tag list, none when it has none
LatestVersionTag(tags) ==
    IF VersionPositions(tags) = {} THEN None
    ELSE Some(Unwrap(tags[Max(VersionPositions(tags))]))

\* no checkout and no head change among the steps of p's call
NoCheckoutNoHead(p) ==
    Range(steps[p]) \cap {"revparse_ext", "checkout_tree", "set_head", "set_head_detached"} = {}

\* C13 as claimed: a successful clone_and_degit with a tag returns exactly
\* that tag, whatever the repository's tags; without a tag it returns the
\* latest version tag of the cloned repository's tag list, none when the
\* list has no version tag, and makes no checkout and no head change.
C13_ReturnsSuppliedOrLatest ==
    \A p \in Procs :
        (pc[p] = "done" /\ Degits(p) /\ result[p].kind = "ok") =>
            IF IsSome(args[p].tag_version)
            THEN result[p] = Ok(args[p].tag_version)
            ELSE /\ result[p] = Ok(LatestVersionTag(remote))
                 /\ NoCheckoutNoHead(p)
                 /\ fs.tree = Some(R_HEAD)

\* C13 as the code has it: with a tag the result is exactly that tag;
\* without one it is the latest version tag of the cloned repository's tag
\* list when the list can be read, and none when the list has no version
\* tag or cannot be read; no checkout and no head change on that path.
C13_ReturnsSuppliedOrLatestIfListed ==
    \A p \in Procs :
        (pc[p] = "done" /\ Degits(p) /\ result[p].kind = "ok") =>
            IF IsSome(args[p].tag_version)
            THEN result[p] = Ok(args[p].tag_version)
            ELSE /\ result[p] = Ok(IF "tag_names_err" \in Range(steps[p]) THEN None
                                   ELSE LatestVersionTag(remote))
                 /\ NoCheckoutNoHead(p)
                 /\ fs.tree = Some(R_HEAD)

\* without a tag, a repository with version tags whose list is read gives
\* its last version tag
C13_Witness ==
    \E p \in Procs :
        /\ pc[p] = "done" /\ args[p].op = "clone_and_degit" /\ ~IsSome(args[p].tag_version)
        /\ steps[p] = <<"clone", "fetch_latest_tag", "remove_dir_all">>
        /\ result[p] = Ok(Some(T_v190))


\* C14: every clone attempt of Git::clone, the https attempt and the ssh
\* fallback attempt alike, is made with history depth 1 and with the branch
\* restriction the caller supplied; the clone attempts of clone_and_degit
\* are full depth.
C14_CloneAttemptsShallowSameBranch ==
    \A p \in Procs : \A i \in 1..Len(attempts[p]) :
        /\ args[p].op = "clone" =>
              /\ attempts[p][i].depth = 1
              /\ attempts[p][i].branch = args[p].branch
        /\ Degits(p) => attempts[p][i].depth = 0

====
